---- MODULE Spec2Model ----
(***************************************************************************)
(* Model of the Monte Carlo simulation engine of Strategic_Brain           *)
(* (runMonteCarlo, triangularSample, createHistogram), of the call         *)
(* StrategyDashboard makes to it, and of the views and handlers of App.    *)
(*                                                                         *)
(* Numbers.  A JavaScript number is modelled as a record [k, v]:           *)
(*   k = "fin" : the finite value v / Scale (a decimal fixed-point number  *)
(*               with three fractional digits),                            *)
(*   k = "inf" : +Infinity (v = 1) or -Infinity (v = -1),                  *)
(*   k = "nan" : NaN (v = 0).                                              *)
(* Sums and differences are exact.  Products and quotients are rounded to  *)
(* the nearest grid point, as IEEE arithmetic rounds to the nearest double.*)
(* Math.sqrt, the only irrational operation, delivers its result on the    *)
(* coarser grid of 1 / SqrtGrid: samples then keep two guard digits below  *)
(* them, the way the 53-bit mantissa of a double keeps the quotient of two *)
(* distinct samples far from underflow, and range / bins of two distinct   *)
(* samples is never rounded to zero.  The inputs below are whole numbers   *)
(* and hundredths, so every product on the way to a sample is exact.       *)
(* Rounding errors of one unit in the last place of a double are below the *)
(* resolution of this model.                                               *)
(***************************************************************************)
EXTENDS Integers, Sequences, FiniteSets, TLC

\* Fixed-point resolution of the number model: 1 = Scale units (three digits).
Scale == 10 * 10 * 10
\* Resolution of the results of Math.sqrt: multiples of 1 / SqrtGrid (one digit).
SqrtGrid == Scale \div 100

VARIABLES
    pc,            \* position of the runMonteCarlo call
    args,          \* its arguments baseCost, baseTime, riskFactor, iterations
    i,             \* its loop counter
    costs, times,  \* its sample arrays
    successes,     \* its success counter
    costSample,    \* costSample of the current iteration, << >> before it is drawn
    lastSample,    \* the latest triangularSample call: its arguments and outcome
    draws,         \* number of Math.random() calls made so far by the call
    avgCost, avgTime,    \* the two averages, << >> before they are computed
    costDistribution,    \* createHistogram(costs, 10), << >> before it returns
    result,        \* << >>, or the SimulationResult returned
    error,         \* "none", or the exception that left runMonteCarlo
    prev,          \* << >>, or the arguments and outcome of the previous call
    smp,           \* a direct call of triangularSample
    hst,           \* a direct call of createHistogram; idx is its latest binIndex
    scenario,      \* << >>, or the scenario prop of a mounted StrategyDashboard
    histCalls,     \* the createHistogram calls runMonteCarlo has made, in order
    ui,            \* the React state of App, GoalForm and HistoryView
    calls,         \* the calls of handleGenerate and handleSelectGoal in flight
    db             \* the server's tables goals and strategies

appVars == <<ui, calls, db>>
engineVars == <<pc, args, i, costs, times, successes, costSample, lastSample, draws,
                avgCost, avgTime, costDistribution, result, error, prev, smp, hst, scenario,
                histCalls>>
vars == <<engineVars, appVars>>
runVars == <<pc, args, i, costs, times, successes, costSample, lastSample, draws,
             avgCost, avgTime, costDistribution, result, error, prev, scenario, histCalls,
             appVars>>

-----------------------------------------------------------------------------
(* IEEE-style arithmetic on modelled numbers *)

Fin(n) == [k |-> "fin", v |-> n]
Num(n) == Fin(n * Scale)
NaN == [k |-> "nan", v |-> 0]
PosInf == [k |-> "inf", v |-> 1]
NegInf == [k |-> "inf", v |-> -1]

IsFin(x) == x.k = "fin"
IsNaN(x) == x.k = "nan"
IsInf(x) == x.k = "inf"

SignOf(n) == IF n > 0 THEN 1 ELSE IF n < 0 THEN -1 ELSE 0
Abs(n) == IF n < 0 THEN -n ELSE n
InfOf(s) == IF s < 0 THEN NegInf ELSE PosInf

\* n / d rounded to the nearest integer (d # 0), halves away from zero.
RoundDiv(n, d) ==
    LET q == (2 * Abs(n) + Abs(d)) \div (2 * Abs(d))
    IN  IF SignOf(n) * SignOf(d) < 0 THEN -q ELSE q

Neg(x) == IF IsNaN(x) THEN NaN ELSE [k |-> x.k, v |-> -x.v]

Add(x, y) ==
    IF IsNaN(x) \/ IsNaN(y) THEN NaN
    ELSE IF IsInf(x) /\ IsInf(y) THEN (IF x.v = y.v THEN x ELSE NaN)
    ELSE IF IsInf(x) THEN x
    ELSE IF IsInf(y) THEN y
    ELSE Fin(x.v + y.v)

Sub(x, y) == Add(x, Neg(y))

Mul(x, y) ==
    IF IsNaN(x) \/ IsNaN(y) THEN NaN
    ELSE IF IsInf(x) \/ IsInf(y)
         THEN (IF x.v = 0 \/ y.v = 0 THEN NaN ELSE InfOf(SignOf(x.v) * SignOf(y.v)))
    ELSE Fin(RoundDiv(x.v * y.v, Scale))

Div(x, y) ==
    IF IsNaN(x) \/ IsNaN(y) THEN NaN
    ELSE IF IsInf(x) THEN (IF IsInf(y) THEN NaN
                           ELSE InfOf(x.v * (IF y.v < 0 THEN -1 ELSE 1)))
    ELSE IF IsInf(y) THEN Fin(0)
    ELSE IF y.v = 0 THEN (IF x.v = 0 THEN NaN ELSE InfOf(x.v))
    ELSE Fin(RoundDiv(x.v * Scale, y.v))

\* x < y and x <= y of JavaScript: false as soon as an operand is NaN.
Lt(x, y) ==
    IF IsNaN(x) \/ IsNaN(y) THEN FALSE
    ELSE IF IsInf(x) THEN x.v < 0 /\ ~(IsInf(y) /\ y.v < 0)
    ELSE IF IsInf(y) THEN y.v > 0
    ELSE x.v < y.v

Le(x, y) ==
    IF IsNaN(x) \/ IsNaN(y) THEN FALSE ELSE (x = y \/ Lt(x, y))

\* Largest r in lo..hi with r * r <= m, for lo * lo <= m < (hi + 1) * (hi + 1).
RECURSIVE SqrtSearch(_, _, _)
SqrtSearch(m, lo, hi) ==
    IF lo >= hi THEN lo
    ELSE LET mid == (lo + hi + 1) \div 2
         IN  IF mid <= m \div mid THEN SqrtSearch(m, mid, hi)
             ELSE SqrtSearch(m, lo, mid - 1)

\* Integer part of the square root of m >= 0.
ISqrt(m) == SqrtSearch(m, 0, m)

\* Math.sqrt: NaN for a negative argument; otherwise the multiple of
\* 1 / SqrtGrid nearest to the root, floor(sqrt(x) * SqrtGrid + 1/2),
\* computed as (floor(sqrt(4 * x * SqrtGrid^2)) + 1) div 2.
Sqrt(x) ==
    IF IsNaN(x) THEN NaN
    ELSE IF IsInf(x) THEN (IF x.v > 0 THEN PosInf ELSE NaN)
    ELSE IF x.v < 0 THEN NaN
    ELSE Fin(((ISqrt((4 * x.v * SqrtGrid * SqrtGrid) \div Scale) + 1) \div 2)
             * (Scale \div SqrtGrid))

\* Math.floor
Floor(x) == IF IsFin(x) THEN Fin((x.v \div Scale) * Scale) ELSE x

\* Math.round: the nearest integer, halves towards +Infinity.
Round(x) == IF IsFin(x) THEN Fin(((2 * x.v + Scale) \div (2 * Scale)) * Scale) ELSE x

\* Math.min and Math.max of two numbers: NaN as soon as an operand is NaN.
Min2(x, y) == IF IsNaN(x) \/ IsNaN(y) THEN NaN ELSE IF Lt(y, x) THEN y ELSE x
Max2(x, y) == IF IsNaN(x) \/ IsNaN(y) THEN NaN ELSE IF Lt(x, y) THEN y ELSE x

\* Math.min(...data) and Math.max(...data): +Infinity and -Infinity when empty.
RECURSIVE MinOf(_)
MinOf(data) == IF data = <<>> THEN PosInf ELSE Min2(Head(data), MinOf(Tail(data)))
RECURSIVE MaxOf(_)
MaxOf(data) == IF data = <<>> THEN NegInf ELSE Max2(Head(data), MaxOf(Tail(data)))

-----------------------------------------------------------------------------
(* triangularSample *)

\* The values Math.random() returns in the model: uniform draws in [0, 1).
Uniforms == {Fin(0), Fin(250), Fin(500), Fin(990)}

\* Mutant of triangularSample: the first branch starts from mode, not min.
TriangularSampleFromMode(min, mode, max, u) ==
    LET f == Div(Sub(mode, min), Sub(max, min))
    IN  IF Lt(u, f)
        THEN LET arg == Mul(Mul(u, Sub(max, min)), Sub(mode, min))
             IN  [value |-> Add(mode, Sqrt(arg)), f |-> f, divisors |-> <<Sub(max, min)>>,
                 branch |-> 1, sqrtArg |-> arg]
        ELSE LET arg == Mul(Mul(Sub(Num(1), u), Sub(max, min)), Sub(max, mode))
             IN  [value |-> Sub(max, Sqrt(arg)), f |-> f, divisors |-> <<Sub(max, min)>>,
                 branch |-> 2, sqrtArg |-> arg]

\* Mutant of triangularSample: the test u < f written as !(u >= f), which
\* differs when f is NaN.
TriangularSampleNegated(min, mode, max, u) ==
    LET f == Div(Sub(mode, min), Sub(max, min))
    IN  IF ~Le(f, u)
        THEN LET arg == Mul(Mul(u, Sub(max, min)), Sub(mode, min))
             IN  [value |-> Add(min, Sqrt(arg)), f |-> f, divisors |-> <<Sub(max, min)>>,
                 branch |-> 1, sqrtArg |-> arg]
        ELSE LET arg == Mul(Mul(Sub(Num(1), u), Sub(max, min)), Sub(max, mode))
             IN  [value |-> Sub(max, Sqrt(arg)), f |-> f, divisors |-> <<Sub(max, min)>>,
                 branch |-> 2, sqrtArg |-> arg]

\* Mutant of triangularSample: the test u < f written as u <= f.
TriangularSampleLe(min, mode, max, u) ==
    LET f == Div(Sub(mode, min), Sub(max, min))
    IN  IF Le(u, f)
        THEN LET arg == Mul(Mul(u, Sub(max, min)), Sub(mode, min))
             IN  [value |-> Add(min, Sqrt(arg)), f |-> f, divisors |-> <<Sub(max, min)>>,
                 branch |-> 1, sqrtArg |-> arg]
        ELSE LET arg == Mul(Mul(Sub(Num(1), u), Sub(max, min)), Sub(max, mode))
             IN  [value |-> Sub(max, Sqrt(arg)), f |-> f, divisors |-> <<Sub(max, min)>>,
                 branch |-> 2, sqrtArg |-> arg]

\* triangularSample(min, mode, max) with u the value of its Math.random()
\* call.  Besides the returned value the record keeps what the evaluation
\* did: f, the divisors of the divisions it evaluated (one, on line 58, on
\* every call), the branch taken and the argument of Math.sqrt.
TriangularSample(min, mode, max, u) ==
    LET f == Div(Sub(mode, min), Sub(max, min))
    IN  IF Lt(u, f)
        THEN LET arg == Mul(Mul(u, Sub(max, min)), Sub(mode, min))
             IN  [value |-> Add(min, Sqrt(arg)), f |-> f, divisors |-> <<Sub(max, min)>>,
                 branch |-> 1, sqrtArg |-> arg]
        ELSE LET arg == Mul(Mul(Sub(Num(1), u), Sub(max, min)), Sub(max, mode))
             IN  [value |-> Sub(max, Sqrt(arg)), f |-> f, divisors |-> <<Sub(max, min)>>,
                 branch |-> 2, sqrtArg |-> arg]

-----------------------------------------------------------------------------
(* createHistogram *)

\* The array built by Array.from: bin i (0-based) is element i + 1, its label
\* `${Math.round(min + i * binSize)} - ${Math.round(min + (i + 1) * binSize)}`
\* kept as the two rounded numbers it prints.
HistogramInit(min, binSize, bins) ==
    [j \in 1..bins |->
        [lo |-> Round(Add(min, Mul(Num(j - 1), binSize))),
         hi |-> Round(Add(min, Mul(Num(j), binSize))),
         count |-> 0]]

\* binIndex of one value.
BinIndex(val, min, binSize, bins) ==
    Min2(Floor(Div(Sub(val, min), binSize)), Num(bins - 1))

\* histogram[binIndex] is an element of the array; for any other index
\* (NaN, negative, infinite) it is undefined and `.count++` throws a TypeError.
IsElement(idx, bins) ==
    IsFin(idx) /\ idx.v % Scale = 0 /\ (idx.v \div Scale) \in 0..(bins - 1)

\* histogram[binIndex].count++
Increment(histogram, idx) ==
    [histogram EXCEPT ![(idx.v \div Scale) + 1].count = @ + 1]

\* The forEach loop from element k of data on.
RECURSIVE ForEach(_, _, _, _, _, _)
ForEach(histogram, data, k, min, binSize, bins) ==
    IF k > Len(data) THEN [threw |-> FALSE, histogram |-> histogram]
    ELSE LET idx == BinIndex(data[k], min, binSize, bins)
         IN  IF IsElement(idx, bins)
             THEN ForEach(Increment(histogram, idx), data, k + 1, min, binSize, bins)
             ELSE [threw |-> TRUE, histogram |-> histogram]

\* createHistogram(data, bins): the array it returns, or threw = TRUE when
\* the forEach callback throws.
CreateHistogram(data, bins) ==
    LET min == MinOf(data)
        max == MaxOf(data)
        range == Sub(max, min)
        binSize == Div(range, Num(bins))
    IN  ForEach(HistogramInit(min, binSize, bins), data, 1, min, binSize, bins)

RECURSIVE SumCounts(_, _)
SumCounts(histogram, k) ==
    IF k > Len(histogram) THEN 0 ELSE histogram[k].count + SumCounts(histogram, k + 1)

-----------------------------------------------------------------------------
(* Bounds and inputs of the model *)

\* Largest iterations argument explored.
MaxIterations == 2
\* Longest data array and largest bin count given to createHistogram directly.
MaxLen == 3
MaxBins == 3

BaseCosts == {Num(-10), Num(0), Num(10)}
BaseTimes == {Num(0), Num(10)}
RiskFactors == {Num(-5), Num(0), Num(10), Num(50)}
Iterations == 0..MaxIterations

\* Arguments of the direct calls.
SampleValues == {Num(-3), Num(0), Num(5), Num(8), Num(10), Num(12)}
HistValues == {Num(8), Num(9), Num(12)}
RECURSIVE SeqsUpTo(_, _)
SeqsUpTo(S, n) ==
    IF n = 0 THEN {<< >>}
    ELSE LET shorter == SeqsUpTo(S, n - 1)
         IN  shorter \cup {Append(q, x) : q \in {r \in shorter : Len(r) = n - 1}, x \in S}

-----------------------------------------------------------------------------
(* runMonteCarlo *)

MinMultiplier == Fin((8 * Scale) \div 10)
\* Mutant of maxMultiplier: (1 + riskFactor) / 50.
MaxMultiplierGrouped(riskFactor) == Div(Add(Num(1), riskFactor), Num(50))
MaxMultiplier(riskFactor) == Add(Num(1), Div(riskFactor, Num(50)))
\* The literal 1.2 of the success criterion.
SuccessFactor == Fin((12 * Scale) \div 10)
\* Bin count runMonteCarlo passes to createHistogram.
HistBins == 10

NoArgs == [baseCost |-> Num(0), baseTime |-> Num(0), riskFactor |-> Num(0), iterations |-> 0]

\* State of a call that has not started.
RunIdle ==
    /\ pc = "idle"
    /\ args = NoArgs
    /\ i = 0
    /\ costs = << >>
    /\ times = << >>
    /\ successes = 0
    /\ costSample = << >>
    /\ lastSample = << >>
    /\ draws = 0
    /\ avgCost = << >>
    /\ avgTime = << >>
    /\ costDistribution = << >>
    /\ result = << >>
    /\ error = "none"
    /\ histCalls = << >>

\* One triangularSample call made by runMonteCarlo, with its Math.random().
SampleCall(which, min, mode, max, u) ==
    [which |-> which, min |-> min, mode |-> mode, max |-> max, u |-> u,
     out |-> TriangularSample(min, mode, max, u)]

\* Mutant of the success test: one count for each criterion that is met.
CountSuccessEach(n, cost, time, baseCost, baseTime) ==
    n + (IF Le(cost, Mul(baseCost, SuccessFactor)) THEN 1 ELSE 0)
      + (IF Le(time, Mul(baseTime, SuccessFactor)) THEN 1 ELSE 0)

\* Mutant of the success test: || in place of &&.
CountSuccessEither(n, cost, time, baseCost, baseTime) ==
    IF Le(cost, Mul(baseCost, SuccessFactor)) \/ Le(time, Mul(baseTime, SuccessFactor))
    THEN n + 1 ELSE n

\* Lines 38-40: the success counter after one iteration.
CountSuccess(n, cost, time, baseCost, baseTime) ==
    IF Le(cost, Mul(baseCost, SuccessFactor)) /\ Le(time, Mul(baseTime, SuccessFactor))
    THEN n + 1 ELSE n

\* The caller invokes runMonteCarlo(baseCost, baseTime, riskFactor, iterations):
\* lines 21-28, up to the loop head.  The code validates nothing.
Call ==
    /\ pc = "idle"
    /\ prev = << >>
    /\ \E bc \in BaseCosts, bt \in BaseTimes, rf \in RiskFactors, n \in Iterations :
          args' = [baseCost |-> bc, baseTime |-> bt, riskFactor |-> rf, iterations |-> n]
    /\ pc' = "loop"
    /\ i' = 0
    /\ costs' = << >>
    /\ times' = << >>
    /\ successes' = 0
    /\ UNCHANGED <<costSample, lastSample, draws, avgCost, avgTime, costDistribution,
                   result, error, prev, smp, hst, scenario, histCalls, appVars>>

\* Line 31: the cost sample of iteration i.
SampleCost ==
    /\ pc = "loop"
    /\ i < args.iterations
    /\ \E u \in Uniforms :
          LET c == SampleCall("cost", Mul(args.baseCost, MinMultiplier), args.baseCost,
                              Mul(args.baseCost, MaxMultiplier(args.riskFactor)), u)
          IN  /\ lastSample' = <<c>>
              /\ costSample' = <<c.out.value>>
    /\ draws' = draws + 1
    /\ pc' = "time"
    /\ UNCHANGED <<args, i, costs, times, successes, avgCost, avgTime, costDistribution,
                   result, error, prev, smp, hst, scenario, histCalls, appVars>>

\* Lines 32-40: the time sample of iteration i, both pushes, the success
\* test and i++.
SampleTime ==
    /\ pc = "time"
    /\ \E u \in Uniforms :
          LET t == SampleCall("time", Mul(args.baseTime, MinMultiplier), args.baseTime,
                              Mul(args.baseTime, MaxMultiplier(args.riskFactor)), u)
              timeSample == t.out.value
          IN  /\ lastSample' = <<t>>
              /\ costs' = Append(costs, costSample[1])
              /\ times' = Append(times, timeSample)
              /\ successes' = CountSuccess(successes, costSample[1], timeSample,
                                            args.baseCost, args.baseTime)
    /\ draws' = draws + 1
    /\ costSample' = << >>
    /\ i' = i + 1
    /\ pc' = "loop"
    /\ UNCHANGED <<args, avgCost, avgTime, costDistribution, result, error, prev, smp, hst, scenario, histCalls, appVars>>

\* Mutant of the reduce: the first element is taken as the initial value
\* and then skipped.
RECURSIVE SumOfSkipFirst(_)
SumOfSkipFirst(data) ==
    IF Len(data) <= 1 THEN Num(0) ELSE Add(data[Len(data)], SumOfSkipFirst(SubSeq(data, 1, Len(data) - 1)))

RECURSIVE SumOf(_)
SumOf(data) == IF data = << >> THEN Num(0) ELSE Add(Head(data), SumOf(Tail(data)))

\* Lines 30, 43-44: the loop ends and the two averages are computed.
LoopExit ==
    /\ pc = "loop"
    /\ ~(i < args.iterations)
    /\ avgCost' = <<Div(SumOf(costs), Num(args.iterations))>>
    /\ avgTime' = <<Div(SumOf(times), Num(args.iterations))>>
    /\ pc' = "histCost"
    /\ UNCHANGED <<args, i, costs, times, successes, costSample, lastSample, draws,
                   costDistribution, result, error, prev, smp, hst, scenario, histCalls, appVars>>

\* Line 50: createHistogram(costs, 10); its TypeError leaves runMonteCarlo.
HistCost ==
    /\ pc = "histCost"
    /\ histCalls' = Append(histCalls, "cost")
    /\ LET h == CreateHistogram(costs, HistBins)
       IN  IF h.threw
           THEN /\ pc' = "threw"
                /\ error' = "TypeError"
                /\ UNCHANGED costDistribution
           ELSE /\ pc' = "histTime"
                /\ costDistribution' = <<h.histogram>>
                /\ UNCHANGED error
    /\ UNCHANGED <<args, i, costs, times, successes, costSample, lastSample, draws,
                   avgCost, avgTime, result, prev, smp, hst, scenario, appVars>>

\* Lines 46-53: createHistogram(times, 10) and the returned object.
HistTime ==
    /\ pc = "histTime"
    /\ histCalls' = Append(histCalls, "time")
    /\ LET h == CreateHistogram(times, HistBins)
       IN  IF h.threw
           THEN /\ pc' = "threw"
                /\ error' = "TypeError"
                /\ UNCHANGED result
           ELSE /\ pc' = "done"
                /\ result' = <<[probabilityOfSuccess |-> Div(Num(successes), Num(args.iterations)),
                                expectedCost |-> avgCost[1],
                                expectedTime |-> avgTime[1],
                                costDistribution |-> costDistribution[1],
                                timeDistribution |-> h.histogram,
                                riskHeatmap |-> << >>]>>
                /\ UNCHANGED error
    /\ UNCHANGED <<args, i, costs, times, successes, costSample, lastSample, draws,
                   avgCost, avgTime, costDistribution, prev, smp, hst, scenario, appVars>>

\* runMonteCarlo has returned or thrown.
Finished == pc \in {"done", "threw"}

\* StrategyDashboard's effect runs again and calls runMonteCarlo once more
\* (the scenario is selected again): the outcome of the finished call is kept
\* for comparison, and the next call is given the same arguments.
Remember ==
    /\ Finished
    /\ prev = << >>
    /\ prev' = <<[args |-> args, result |-> result, error |-> error]>>
    /\ pc' = "idle"
    /\ args' = NoArgs
    /\ i' = 0
    /\ costs' = << >>
    /\ times' = << >>
    /\ successes' = 0
    /\ costSample' = << >>
    /\ lastSample' = << >>
    /\ draws' = 0
    /\ avgCost' = << >>
    /\ avgTime' = << >>
    /\ costDistribution' = << >>
    /\ result' = << >>
    /\ error' = "none"
    /\ histCalls' = << >>
    /\ UNCHANGED <<smp, hst, scenario, appVars>>

CallAgain ==
    /\ pc = "idle"
    /\ prev # << >>
    /\ args' = prev[1].args
    /\ pc' = "loop"
    /\ UNCHANGED <<i, costs, times, successes, costSample, lastSample, draws, avgCost,
                   avgTime, costDistribution, result, error, prev, smp, hst, scenario, histCalls, appVars>>

-----------------------------------------------------------------------------
(* Direct calls of triangularSample and createHistogram *)

SmpIdle == [pc |-> "idle", min |-> Num(0), mode |-> Num(0), max |-> Num(0),
            u |-> << >>, out |-> << >>]
HstIdle == [pc |-> "idle", data |-> << >>, bins |-> 0, min |-> Num(0),
            binSize |-> Num(0), histogram |-> << >>, k |-> 0, idx |-> << >>]

\* triangularSample(min, mode, max) runs: Math.random() yields u.
SamplerCall ==
    /\ smp.pc = "ready"
    /\ \E u \in Uniforms :
          smp' = [smp EXCEPT !.pc = "returned", !.u = <<u>>,
                             !.out = <<TriangularSample(smp.min, smp.mode, smp.max, u)>>]
    /\ UNCHANGED <<runVars, hst>>

\* Lines 67-75 of createHistogram(data, bins).
HistBegin ==
    /\ hst.pc = "ready"
    /\ LET min == MinOf(hst.data)
           max == MaxOf(hst.data)
           range == Sub(max, min)
           binSize == Div(range, Num(hst.bins))
       IN  hst' = [hst EXCEPT !.pc = "each", !.min = min, !.binSize = binSize,
                              !.histogram = HistogramInit(min, binSize, hst.bins),
                              !.k = 1]
    /\ UNCHANGED <<runVars, smp>>

\* Lines 77-80: the forEach callback on element k.
HistEach ==
    /\ hst.pc = "each"
    /\ hst.k <= Len(hst.data)
    /\ LET idx == BinIndex(hst.data[hst.k], hst.min, hst.binSize, hst.bins)
       IN  hst' = IF IsElement(idx, hst.bins)
                  THEN [hst EXCEPT !.histogram = Increment(hst.histogram, idx),
                                   !.k = hst.k + 1, !.idx = <<idx>>]
                  ELSE [hst EXCEPT !.pc = "threw", !.idx = <<idx>>]
    /\ UNCHANGED <<runVars, smp>>

\* Line 82.
HistReturn ==
    /\ hst.pc = "each"
    /\ hst.k > Len(hst.data)
    /\ hst' = [hst EXCEPT !.pc = "returned"]
    /\ UNCHANGED <<runVars, smp>>

-----------------------------------------------------------------------------
(* App: the views, handleGenerate, handleSelectGoal and the server's tables *)

\* Most calls of the two handlers in flight at a time.
MaxCalls == 2
\* Most rows the goals table comes to hold.
MaxGoals == 2
\* Most scenarios generateStrategies returns.
MaxScenarios == 2
\* Goal texts the user types.
GoalTitles == {"a", "b"}

\* useState initial values of App (view, isLoading, scenarios,
\* selectedScenario, currentGoal), of GoalForm (goal) and of HistoryView
\* (goals, loading).  The state of a form or history view that is not mounted
\* is kept at its initial value.  A scenario is the record [goal, name]; its
\* id field, which no handler reads, is left out.
UiIdle == [view |-> "input", isLoading |-> FALSE, scenarios |-> << >>,
           selectedScenario |-> << >>, currentGoal |-> "",
           goal |-> "", goals |-> {}, loading |-> TRUE]
\* A slot without a call.  pc is the await at which a call is suspended.
NoCall == [kind |-> "none", pc |-> "none", goal |-> "", goalId |-> 0,
           results |-> << >>, k |-> 0]
\* The tables of a new database.
EmptyDb == [goals |-> << >>, strategies |-> << >>]
AppIdle == ui = UiIdle /\ calls = [c \in 1..MaxCalls |-> NoCall] /\ db = EmptyDb

\* The calls in flight, and the slot the next call takes.
InFlight == {c \in 1..MaxCalls : calls[c].kind # "none"}
FreeSlot == CHOOSE c \in 1..MaxCalls :
                calls[c].kind = "none" /\ \A d \in 1..(c - 1) : calls[d].kind # "none"

\* setView(v): the form or history view that was shown is unmounted, and
\* the one for v is mounted with its initial state.
SetView(u, v) ==
    IF u.view = v THEN u
    ELSE [u EXCEPT !.view = v, !.goal = "", !.goals = {}, !.loading = TRUE]
\* array[0], undefined (here << >>) for an empty array
First(array) == IF array = << >> THEN << >> ELSE <<array[1]>>
\* finally { setIsLoading(false) }
Finally(u) == [u EXCEPT !.isLoading = FALSE]

\* GoalForm: onChange={(e) => setGoal(e.target.value)}
TypeGoal(t) ==
    /\ ui.view = "input"
    /\ t # ui.goal
    /\ ui' = [ui EXCEPT !.goal = t]
    /\ UNCHANGED <<calls, db, engineVars>>

\* Header's Dashboard, History and New Goal buttons and the results view's
\* New Strategy button: setView('input') or setView('history').
Navigate(v) ==
    /\ v # ui.view
    /\ ui' = SetView(ui, v)
    /\ UNCHANGED <<calls, db, engineVars>>

\* HistoryView's fetch('/api/goals') resolves while the view is mounted.
HistoryLoaded ==
    /\ ui.view = "history"
    /\ ui.loading
    /\ ui' = [ui EXCEPT !.goals = {[id |-> g, title |-> db.goals[g]] : g \in 1..Len(db.goals)},
                        !.loading = FALSE]
    /\ UNCHANGED <<calls, db, engineVars>>

\* Calls of handleGenerate that have not yet inserted their goal.
Unsaved == {c \in InFlight : calls[c].pc \in {"contextFetch", "contextJson",
                                              "generate", "goalFetch"}}

\* The Generate button, enabled unless isLoading || !goal, is clicked:
\* handleGenerate runs up to its first await.
HandleGenerate ==
    /\ ui.view = "input"
    /\ ~ui.isLoading
    /\ ui.goal # ""
    /\ InFlight # 1..MaxCalls
    /\ Len(db.goals) + Cardinality(Unsaved) < MaxGoals
    /\ ui' = [ui EXCEPT !.isLoading = TRUE, !.currentGoal = ui.goal]
    /\ calls' = [calls EXCEPT ![FreeSlot] =
                    [NoCall EXCEPT !.kind = "generate", !.pc = "contextFetch",
                                   !.goal = ui.goal]]
    /\ UNCHANGED <<db, engineVars>>

\* await fetch('/api/learning-context') resolves.
ContextFetched(c) ==
    /\ calls[c].pc = "contextFetch"
    /\ calls' = [calls EXCEPT ![c].pc = "contextJson"]
    /\ UNCHANGED <<ui, db, engineVars>>

\* await contextRes.json() resolves.
ContextParsed(c) ==
    /\ calls[c].pc = "contextJson"
    /\ calls' = [calls EXCEPT ![c].pc = "generate"]
    /\ UNCHANGED <<ui, db, engineVars>>

\* await generateStrategies(...) resolves with n scenarios: they are shown
\* in the results view and the goal is posted.
Generated(c, n) ==
    /\ calls[c].pc = "generate"
    /\ LET results == [j \in 1..n |-> [goal |-> calls[c].goal, name |-> j]]
       IN  /\ ui' = SetView([ui EXCEPT !.scenarios = results,
                                       !.selectedScenario = First(results)],
                            "results")
           /\ calls' = [calls EXCEPT ![c].results = results, ![c].pc = "goalFetch"]
    /\ UNCHANGED <<db, engineVars>>

\* The server inserts the goal and await fetch('/api/goals', POST) resolves.
GoalPosted(c) ==
    /\ calls[c].pc = "goalFetch"
    /\ db' = [db EXCEPT !.goals = Append(@, calls[c].goal)]
    /\ calls' = [calls EXCEPT ![c].goalId = Len(db.goals) + 1, ![c].pc = "goalJson"]
    /\ UNCHANGED <<ui, engineVars>>

\* await goalRes.json() resolves: the loop over the results begins, or with
\* no results the call ends.
GoalParsed(c) ==
    /\ calls[c].pc = "goalJson"
    /\ IF calls[c].results = << >>
       THEN /\ ui' = Finally(ui)
            /\ calls' = [calls EXCEPT ![c] = NoCall]
       ELSE /\ calls' = [calls EXCEPT ![c].k = 1, ![c].pc = "stratFetch"]
            /\ UNCHANGED ui
    /\ UNCHANGED <<db, engineVars>>

\* The server inserts strategy k and await fetch('/api/strategies', POST)
\* resolves.
StrategyPosted(c) ==
    /\ calls[c].pc = "stratFetch"
    /\ db' = [db EXCEPT !.strategies =
                 Append(@, [goal_id |-> calls[c].goalId,
                            data |-> calls[c].results[calls[c].k]])]
    /\ calls' = [calls EXCEPT ![c].pc = "stratJson"]
    /\ UNCHANGED <<ui, engineVars>>

\* await stratRes.json() resolves: the next strategy is posted, or after the
\* last one the call ends.
StrategyParsed(c) ==
    /\ calls[c].pc = "stratJson"
    /\ IF calls[c].k = Len(calls[c].results)
       THEN /\ ui' = Finally(ui)
            /\ calls' = [calls EXCEPT ![c] = NoCall]
       ELSE /\ calls' = [calls EXCEPT ![c].k = @ + 1, ![c].pc = "stratFetch"]
            /\ UNCHANGED ui
    /\ UNCHANGED <<db, engineVars>>

\* The rows a history list can show.
HistoryRows == {[id |-> g, title |-> t] : g \in 1..MaxGoals, t \in GoalTitles}

\* A goal of the loaded history list is clicked: handleSelectGoal runs up to
\* its first await.
HandleSelectGoal(g) ==
    /\ ui.view = "history"
    /\ ~ui.loading
    /\ g \in ui.goals
    /\ InFlight # 1..MaxCalls
    /\ ui' = [ui EXCEPT !.isLoading = TRUE, !.currentGoal = g.title]
    /\ calls' = [calls EXCEPT ![FreeSlot] =
                    [NoCall EXCEPT !.kind = "select", !.pc = "fetch",
                                   !.goal = g.title, !.goalId = g.id]]
    /\ UNCHANGED <<db, engineVars>>

\* SELECT * FROM strategies WHERE goal_id = ?
RECURSIVE StrategiesOf(_, _)
StrategiesOf(goalId, rows) ==
    IF rows = << >> THEN << >>
    ELSE LET rest == StrategiesOf(goalId, SubSeq(rows, 1, Len(rows) - 1))
             last == rows[Len(rows)]
         IN  IF last.goal_id = goalId THEN Append(rest, last.data) ELSE rest

\* The server reads the goal's strategies and await fetch(...) resolves.
StrategiesFetched(c) ==
    /\ calls[c].pc = "fetch"
    /\ calls' = [calls EXCEPT ![c].results = StrategiesOf(calls[c].goalId, db.strategies),
                              ![c].pc = "json"]
    /\ UNCHANGED <<ui, db, engineVars>>

\* await res.json() resolves: the loaded scenarios are shown in the results
\* view and the call ends.
StrategiesParsed(c) ==
    /\ calls[c].pc = "json"
    /\ ui' = Finally(SetView([ui EXCEPT !.scenarios = calls[c].results,
                                        !.selectedScenario = First(calls[c].results)],
                             "results"))
    /\ calls' = [calls EXCEPT ![c] = NoCall]
    /\ UNCHANGED <<db, engineVars>>

\* The promise a call awaits is rejected: catch logs the error and finally
\* ends the call.
Rejected(c) ==
    /\ c \in InFlight
    /\ ui' = Finally(ui)
    /\ calls' = [calls EXCEPT ![c] = NoCall]
    /\ UNCHANGED <<db, engineVars>>

-----------------------------------------------------------------------------
(* Specifications *)

\* One call of runMonteCarlo.
Init == RunIdle /\ prev = << >> /\ smp = SmpIdle /\ hst = HstIdle /\ scenario = << >> /\ AppIdle
Next == Call \/ SampleCost \/ SampleTime \/ LoopExit \/ HistCost \/ HistTime
Spec == Init /\ [][Next]_vars

\* Two calls of runMonteCarlo with the same arguments, one after the other.
NextPair == Next \/ Remember \/ CallAgain
SpecPair == Init /\ [][NextPair]_vars

\* triangularSample on its own, for every ordering of min, mode and max.
InitSampler ==
    /\ RunIdle /\ prev = << >> /\ hst = HstIdle /\ scenario = << >> /\ AppIdle
    /\ \E a \in SampleValues, b \in SampleValues, c \in SampleValues :
          smp = [SmpIdle EXCEPT !.pc = "ready", !.min = a, !.mode = b, !.max = c]
SpecSampler == InitSampler /\ [][SamplerCall]_vars

\* createHistogram on its own.
InitHistogram ==
    /\ RunIdle /\ prev = << >> /\ smp = SmpIdle /\ scenario = << >> /\ AppIdle
    /\ \E d \in SeqsUpTo(HistValues, MaxLen), b \in 1..MaxBins :
          hst = [HstIdle EXCEPT !.pc = "ready", !.data = d, !.bins = b]
NextHistogram == HistBegin \/ HistEach \/ HistReturn
SpecHistogram == InitHistogram /\ [][NextHistogram]_vars

\* The application in the browser, from its first render with a new database.
NextApp ==
    \/ \E t \in GoalTitles \cup {""} : TypeGoal(t)
    \/ \E v \in {"input", "history"} : Navigate(v)
    \/ HistoryLoaded
    \/ HandleGenerate
    \/ \E g \in HistoryRows : HandleSelectGoal(g)
    \/ \E c \in 1..MaxCalls :
          \/ ContextFetched(c)
          \/ ContextParsed(c)
          \/ \E n \in 0..MaxScenarios : Generated(c, n)
          \/ GoalPosted(c)
          \/ GoalParsed(c)
          \/ StrategyPosted(c)
          \/ StrategyParsed(c)
          \/ StrategiesFetched(c)
          \/ StrategiesParsed(c)
          \/ Rejected(c)
SpecApp == Init /\ [][NextApp]_vars

-----------------------------------------------------------------------------
(* StrategyDashboard: the caller of runMonteCarlo *)

\* Longest roadmap of a scenario.
MaxRoadmap == 2
\* estimatedCost of a sub-goal and risk of a scenario; NaN stands for a
\* value that is missing (undefined), which `|| 0` treats like NaN and 0.
EstimatedCosts == {NaN, Num(0), Num(5), Num(10)}
RiskScores == {NaN, Num(0), Num(10), Num(50)}

\* x || 0
OrZero(x) == IF IsNaN(x) \/ x = Num(0) THEN Num(0) ELSE x

\* (scenario.roadmap || []).reduce((acc, curr) => acc + (curr.estimatedCost || 0), 0)
RECURSIVE TotalCost(_)
TotalCost(roadmap) ==
    IF roadmap = << >> THEN Num(0)
    ELSE Add(TotalCost(SubSeq(roadmap, 1, Len(roadmap) - 1)), OrZero(roadmap[Len(roadmap)]))

\* const totalTime = 90
TotalTime == 90
\* iterations: number = 5000
DefaultIterations == 5000

\* The effect of StrategyDashboard calls runMonteCarlo(totalCost, totalTime,
\* scenario.risk || 0): the call starts with these arguments.
DashboardEffect ==
    /\ scenario # << >>
    /\ pc = "idle"
    /\ args' = [baseCost |-> TotalCost(scenario[1].roadmap),
                baseTime |-> Num(TotalTime),
                riskFactor |-> OrZero(scenario[1].risk),
                iterations |-> DefaultIterations]
    /\ pc' = "loop"
    /\ i' = 0
    /\ costs' = << >>
    /\ times' = << >>
    /\ successes' = 0
    /\ UNCHANGED <<costSample, lastSample, draws, avgCost, avgTime, costDistribution,
                   result, error, prev, smp, hst, scenario, histCalls, appVars>>

\* A StrategyDashboard is mounted with any scenario the application holds.
InitDashboard ==
    /\ RunIdle /\ prev = << >> /\ smp = SmpIdle /\ hst = HstIdle /\ AppIdle
    /\ \E r \in SeqsUpTo(EstimatedCosts, MaxRoadmap), k \in RiskScores :
          scenario = <<[roadmap |-> r, risk |-> k]>>
SpecDashboard == InitDashboard /\ [][DashboardEffect]_vars

-----------------------------------------------------------------------------
(* Properties *)

\* The input contract of the engine.
ValidArgs ==
    /\ Lt(Num(0), args.baseCost)
    /\ Lt(Num(0), args.baseTime)
    /\ Le(Num(0), args.riskFactor)
    /\ args.iterations >= 1
Called == pc # "idle"

\* C1: whenever createHistogram is called with binCount >= 1 it returns, and
\* the counts of the bins it returns sum to the number of samples.
C1_CountsSumToSamples ==
    hst.pc \in {"each", "threw", "returned"} =>
        /\ hst.pc # "threw"
        /\ (hst.pc = "returned" => SumCounts(hst.histogram, 1) = Len(hst.data))

\* C2: for min <= mode <= max and every draw u, triangularSample returns a
\* value v with min <= v <= max.
C2_SampleWithinRange ==
    (smp.pc = "returned" /\ Le(smp.min, smp.mode) /\ Le(smp.mode, smp.max)) =>
        /\ Le(smp.min, smp.out[1].value)
        /\ Le(smp.out[1].value, smp.max)
\* A sample strictly inside a proper triangle, from each branch.
C2_Witness ==
    /\ smp.pc = "returned"
    /\ Lt(smp.min, smp.mode) /\ Lt(smp.mode, smp.max)
    /\ Lt(smp.min, smp.out[1].value) /\ Lt(smp.out[1].value, smp.max)
    /\ smp.out[1].branch = 1

\* C3: for valid inputs the success counter stays within 0..i, i never
\* exceeds iterations, and the probabilityOfSuccess returned is in [0, 1].
C3_ProbabilityInUnitInterval ==
    (Called /\ ValidArgs) =>
        /\ 0 <= successes /\ successes <= i /\ i <= args.iterations
        /\ (result # << >> =>
              /\ Le(Num(0), result[1].probabilityOfSuccess)
              /\ Le(result[1].probabilityOfSuccess, Num(1)))
\* A run returns a probability strictly between 0 and 1.
C3_Witness ==
    /\ ValidArgs /\ pc = "done"
    /\ Lt(Num(0), result[1].probabilityOfSuccess)
    /\ Lt(result[1].probabilityOfSuccess, Num(1))

\* C4: two runs of runMonteCarlo with the same inputs have the same outcome
\* (the same SimulationResult, or the same exception).
C4_SameInputsSameResult ==
    (Finished /\ prev # << >> /\ args = prev[1].args) =>
        (result = prev[1].result /\ error = prev[1].error)

\* C5: a call with iterations < 1 returns no SimulationResult and ends by
\* raising InvalidIterations.
C5_InvalidIterationsRaised ==
    (Called /\ args.iterations < 1) =>
        /\ result = << >>
        /\ (Finished => error = "InvalidIterations")

\* C6: a call with baseCost <= 0 or baseTimeDays <= 0 (and the other
\* arguments valid) returns no SimulationResult and ends by raising
\* InvalidBaseline.
C6_InvalidBaselineRaised ==
    (/\ Called
     /\ ~(Lt(Num(0), args.baseCost) /\ Lt(Num(0), args.baseTime))
     /\ Le(Num(0), args.riskFactor) /\ args.iterations >= 1) =>
        /\ result = << >>
        /\ (Finished => error = "InvalidBaseline")

\* C7: a call with riskFactor < 0 ends by raising InvalidRiskFactor, and
\* triangularSample is never called with max below mode.
C7_InvalidRiskFactorRaised ==
    /\ (Called /\ Lt(args.riskFactor, Num(0))) =>
          /\ result = << >>
          /\ (Finished => error = "InvalidRiskFactor")
    /\ (lastSample # << >> => ~Lt(lastSample[1].max, lastSample[1].mode))

\* C8: on an invalid input no uniform draw is consumed, no sample is
\* appended to costs or times, and no SimulationResult is returned.
C8_NoSamplingOnInvalidInput ==
    (Called /\ ~ValidArgs) =>
        /\ draws = 0
        /\ costs = << >> /\ times = << >>
        /\ costSample = << >>
        /\ result = << >>

\* The degenerate distribution of C9.
Degenerate == smp.pc = "returned" /\ smp.min = smp.mode /\ smp.mode = smp.max

\* C9 as stated: for min = mode = max the sampler returns min for every u and
\* evaluates no division by max - min.
C9_DegenerateWithoutDivision ==
    Degenerate => (smp.out[1].value = smp.min /\ smp.out[1].divisors = << >>)
\* C9 as amended: for min = mode = max the sampler returns min for every u;
\* it does so through the formula: it divides 0 by max - min = 0, f is NaN,
\* u < f is false and the second branch returns max - sqrt(0).
C9_DegenerateReturnsMin ==
    Degenerate =>
        /\ smp.out[1].value = smp.min
        /\ smp.out[1].divisors = <<Num(0)>>
        /\ IsNaN(smp.out[1].f)
        /\ smp.out[1].branch = 2
        /\ smp.out[1].sqrtArg = Num(0)
\* sample(5, 5, 5, u) has returned for a u > 0.
C9_Witness ==
    /\ Degenerate /\ smp.min = Num(5)
    /\ Lt(Num(0), smp.u[1])
    /\ smp.out[1].value = Num(5)

\* C10: with riskFactor = 0 and baseCost > 0 every cost sample is drawn with
\* max = mode = baseCost, and every cost draw is <= baseCost.
C10_ZeroRiskCostAtMostBase ==
    (Called /\ args.riskFactor = Num(0) /\ Lt(Num(0), args.baseCost)) =>
        /\ (lastSample # << >> /\ lastSample[1].which = "cost") =>
              (lastSample[1].max = args.baseCost /\ lastSample[1].mode = args.baseCost)
        /\ (costSample # << >> => Le(costSample[1], args.baseCost))
        /\ \A k \in 1..Len(costs) : Le(costs[k], args.baseCost)
\* A zero-risk run has drawn a cost below baseCost and a cost equal to it.
C10_Witness ==
    /\ args.riskFactor = Num(0) /\ Lt(Num(0), args.baseCost)
    /\ Len(costs) = 2
    /\ Lt(costs[1], args.baseCost)
    /\ Lt(costs[1], costs[2])

\* The histogram has one bin of count 1, all others of count 0, and every
\* label collapsed to the value x.
OneBinAt(histogram, x) ==
    /\ SumCounts(histogram, 1) = 1
    /\ \E j \in 1..Len(histogram) : histogram[j].count = 1
    /\ \A j \in 1..Len(histogram) :
          histogram[j].lo = Round(x) /\ histogram[j].hi = Round(x)

\* C11: with iterations = 1 and otherwise valid inputs the run returns a
\* result whose expectedCost is the single cost draw and whose
\* costDistribution has one bin of count 1 and a zero-width range.
C11_SingleIteration ==
    (ValidArgs /\ args.iterations = 1 /\ Finished) =>
        /\ pc = "done"
        /\ result[1].expectedCost = costs[1]
        /\ OneBinAt(result[1].costDistribution, costs[1])

\* Iteration k met both success criteria.
MetBoth(k) ==
    /\ Le(costs[k], Mul(args.baseCost, SuccessFactor))
    /\ Le(times[k], Mul(args.baseTime, SuccessFactor))
MetOne(k) ==
    Le(costs[k], Mul(args.baseCost, SuccessFactor))
        # Le(times[k], Mul(args.baseTime, SuccessFactor))

\* C12: the success counter equals the number of iterations whose cost draw
\* and time draw both are within 1.2 times the baseline; an iteration that
\* meets one criterion only is not counted.
C12_SuccessesCountBoth ==
    Called => successes = Cardinality({k \in 1..Len(costs) : MetBoth(k)})
\* The loop has ended with one iteration counted and one iteration that met
\* one criterion only.
C12_Witness ==
    /\ pc = "histCost" /\ Len(costs) = 2
    /\ MetBoth(1) /\ MetOne(2)
    /\ successes = 1

\* Sum of the fixed-point values of data[1..k].
RECURSIVE Total(_, _)
Total(data, k) == IF k = 0 THEN 0 ELSE data[k].v + Total(data, k - 1)

\* C13: for valid inputs the result returned has probabilityOfSuccess =
\* successes / iterations, and expectedCost and expectedTime the sums of
\* all `iterations` cost draws and time draws divided by iterations.
C13_MeansOverAllDraws ==
    (ValidArgs /\ result # << >>) =>
        /\ Len(costs) = args.iterations /\ Len(times) = args.iterations
        /\ result[1].probabilityOfSuccess = Fin(RoundDiv(successes * Scale, args.iterations))
        /\ result[1].expectedCost = Fin(RoundDiv(Total(costs, Len(costs)), args.iterations))
        /\ result[1].expectedTime = Fin(RoundDiv(Total(times, Len(times)), args.iterations))
\* A result over two distinct cost draws and two distinct time draws.
C13_Witness ==
    /\ ValidArgs /\ pc = "done" /\ args.iterations = 2
    /\ Lt(costs[1], result[1].expectedCost) /\ Lt(result[1].expectedCost, costs[2])
    /\ Lt(times[2], result[1].expectedTime) /\ Lt(result[1].expectedTime, times[1])

\* Bin j (1-based) of the histogram of data is labelled with the rounded
\* ends of min + (j - 1) * binWidth .. min + j * binWidth, and the ranges
\* ascend from bin to bin.
AscendingBins(histogram, data) ==
    LET min == MinOf(data)
        binWidth == Div(Sub(MaxOf(data), min), Num(Len(histogram)))
    IN  \A j \in 1..Len(histogram) :
          /\ histogram[j].lo = Round(Add(min, Mul(Num(j - 1), binWidth)))
          /\ histogram[j].hi = Round(Add(min, Mul(Num(j), binWidth)))
          /\ Le(histogram[j].lo, histogram[j].hi)
          /\ (j < Len(histogram) => histogram[j].hi = histogram[j + 1].lo)

\* C14: every SimulationResult returned has a costDistribution and a
\* timeDistribution of exactly 10 bins in ascending order of range, and an
\* empty riskHeatmap.
C14_TenAscendingBins ==
    result # << >> =>
        /\ Len(result[1].costDistribution) = 10
        /\ Len(result[1].timeDistribution) = 10
        /\ AscendingBins(result[1].costDistribution, costs)
        /\ AscendingBins(result[1].timeDistribution, times)
        /\ result[1].riskHeatmap = << >>

\* C15: every call StrategyDashboard makes passes the sum of the roadmap's
\* estimatedCost values, 90 days, the scenario's risk score and the default
\* 5000 iterations, and these arguments satisfy the engine's input contract.
C15_CallerMeetsContract ==
    (scenario # << >> /\ Called) =>
        /\ args.baseCost = TotalCost(scenario[1].roadmap)
        /\ args.baseTime = Num(90)
        /\ args.riskFactor = OrZero(scenario[1].risk)
        /\ args.iterations = 5000
        /\ ValidArgs

\* The data of the direct createHistogram call is not empty and all equal.
AllIdentical == hst.data # << >> /\ \A k \in 1..Len(hst.data) : hst.data[k] = hst.data[1]
HistEnded == hst.pc \in {"threw", "returned"}

\* C16: when all samples are identical createHistogram returns normally,
\* with every sample counted in bin 0 and all other bins at count 0.
C16_IdenticalSamplesInBinZero ==
    (AllIdentical /\ HistEnded) =>
        /\ hst.pc = "returned"
        /\ hst.histogram[1].count = Len(hst.data)
        /\ \A j \in 2..hst.bins : hst.histogram[j].count = 0

\* The sample the latest forEach callback was given.
LatestVal == IF hst.pc = "threw" THEN hst.data[hst.k] ELSE hst.data[hst.k - 1]

\* C17: for every sample the callback increments a bin, at an integer index
\* in 0..binCount - 1, and a sample equal to max is counted in the last bin.
C17_IndexWithinBins ==
    hst.idx # << >> =>
        /\ hst.pc # "threw"
        /\ IsElement(hst.idx[1], hst.bins)
        /\ (LatestVal = MaxOf(hst.data) => hst.idx[1] = Num(hst.bins - 1))

\* The part of C18 that concerns the order of the calls: each iteration
\* calls the sampler twice, for cost and then for time, each call with its
\* own draw; createHistogram is called for costs and then for times, only
\* after the loop, when both arrays hold `iterations` values.
CallsInOrder ==
    /\ draws = 2 * i + (IF pc = "time" THEN 1 ELSE 0)
    /\ (pc = "time" => lastSample[1].which = "cost")
    /\ ((pc = "loop" /\ i > 0) => lastSample[1].which = "time")
    /\ histCalls \in {<< >>, <<"cost">>, <<"cost", "time">>}
    /\ (pc \in {"loop", "time"} => histCalls = << >>)
    /\ (histCalls # << >> =>
          /\ i = args.iterations /\ draws = 2 * args.iterations
          /\ Len(costs) = args.iterations /\ Len(times) = args.iterations)

\* C18: the calls of a run are made in the fixed order, and the run calls
\* createHistogram exactly twice, for costs and then for times.
C18_FixedCallOrder ==
    Called =>
        /\ CallsInOrder
        /\ (Finished => histCalls = <<"cost", "time">>)

\* C19: called with min > mode or mode > max, the sampler signals
\* InvalidDistributionParameters and returns no value.
C19_InvalidParametersSignalled ==
    (smp.pc = "returned" /\ (Lt(smp.mode, smp.min) \/ Lt(smp.max, smp.mode))) =>
        smp.out = << >>

\* The two branch formulas of the sampler, for the call in smp.
FirstBranchValue ==
    Add(smp.min, Sqrt(Mul(Mul(smp.u[1], Sub(smp.max, smp.min)), Sub(smp.mode, smp.min))))
SecondBranchValue ==
    Sub(smp.max, Sqrt(Mul(Mul(Sub(Num(1), smp.u[1]), Sub(smp.max, smp.min)),
                          Sub(smp.max, smp.mode))))

\* C20: when min < max the branch follows f = (mode - min) / (max - min):
\* with mode = min, f = 0 and the second branch is used for every u; with
\* mode = max, f = 1 and the first branch is used for every u; Math.sqrt is
\* never given a negative argument.
C20_BranchFollowsF ==
    (smp.pc = "returned" /\ Lt(smp.min, smp.max)) =>
        /\ smp.out[1].branch = (IF Lt(smp.u[1], smp.out[1].f) THEN 1 ELSE 2)
        /\ (smp.mode = smp.min =>
              /\ smp.out[1].f = Num(0)
              /\ smp.out[1].branch = 2
              /\ smp.out[1].value = SecondBranchValue)
        /\ (smp.mode = smp.max =>
              /\ smp.out[1].f = Num(1)
              /\ smp.out[1].branch = 1
              /\ smp.out[1].value = FirstBranchValue)
        /\ Le(Num(0), smp.out[1].sqrtArg)
\* The sampler has returned from its second branch for mode = min < max and
\* the draw u = 0.
C20_Witness ==
    /\ smp.pc = "returned"
    /\ smp.mode = smp.min /\ Lt(smp.min, smp.max)
    /\ smp.u[1] = Num(0)
    /\ smp.out[1].branch = 2
    /\ smp.out[1].value = smp.min

\* The precondition of C21: positive baselines and 0 <= riskFactor <= 10, so
\* that maxMultiplier <= 1.2.
LowRisk ==
    /\ Lt(Num(0), args.baseCost)
    /\ Lt(Num(0), args.baseTime)
    /\ Le(Num(0), args.riskFactor)
    /\ Le(args.riskFactor, Num(10))

\* C21: for baseCost > 0, baseTime > 0 and 0 <= riskFactor <= 10 every draw
\* meets the success predicate, successes equals the number of iterations
\* and the probabilityOfSuccess returned is 1, whatever the random draws;
\* with positive baselines a probability below 1 is returned only when
\* riskFactor > 10.
C21_LowRiskAlwaysSucceeds ==
    /\ (Called /\ LowRisk) =>
          /\ \A k \in 1..Len(costs) : MetBoth(k)
          /\ successes = i
          /\ (pc \notin {"loop", "time"} => successes = args.iterations)
          /\ (result # << >> => result[1].probabilityOfSuccess = Num(1))
    /\ (/\ Lt(Num(0), args.baseCost) /\ Lt(Num(0), args.baseTime)
        /\ result # << >>
        /\ Lt(result[1].probabilityOfSuccess, Num(1))) =>
          Lt(Num(10), args.riskFactor)

\* C22: in every state of the application isLoading is true when at least
\* one call of handleGenerate or handleSelectGoal is in flight, and false
\* when every call that was started has ended, by returning or by a
\* rejected await.
C22_LoadingWhileInFlight ==
    /\ (InFlight # {} => ui.isLoading)
    /\ (InFlight = {} => ~ui.isLoading)

====
